---- MODULE Spec2Model ----
(***************************************************************************)
(* State machine of src/main.ts: the QR scanner callback, the GLTF loader  *)
(* callbacks, the pointer handlers and the animation frame.                *)
(*                                                                         *)
(* Encoding                                                                *)
(*  - Date.now() is the variable now (milliseconds since the epoch, hence  *)
(*    far above QR_TIMEOUT when the page starts); the step Elapse moves it *)
(*    forward.                                                             *)
(*  - A THREE.Object3D produced by a load is identified by the ordinal of  *)
(*    the loader.load call that produced it (1, 2, ...); NoModel is null.  *)
(*  - scene is the set of loaded objects whose parent is the scene (the    *)
(*    two lights added by init3DScene never change and are left out).      *)
(*  - lastQRLocation is a set holding zero (null) or one record.           *)
(*  - A payload is [scheme, rest]; `new URL(url)` without a base throws    *)
(*    exactly when the text has no scheme.                                 *)
(*  - Rotations are integers in units of 1/1000 rad.                       *)
(*  - transform holds the position and scale that updateModelPosition gave *)
(*    the held object ({} while none was given), as exact fractions.       *)
(*  - The banner written by showResult and the console are not part of the *)
(*    state.                                                               *)
(***************************************************************************)
EXTENDS Integers, Sequences, FiniteSets, TLC

\* ---------------------------------------------------------------- bounds
StartTime  == 1000   \* Date.now() when the page starts
MaxPeriods == 2      \* the clock is followed for this many timeouts
MaxLoads   == 3      \* loader.load calls followed
MaxPointer == 1      \* pointer coordinates are 0..MaxPointer
MaxTarget  == 10     \* |targetRotation| per axis that is followed
FrameWrap  == 2      \* render calls are counted modulo FrameWrap
MaxGrid    == 1      \* sampled result points lie on 10 * (0..MaxGrid)
MaxPoints  == 4      \* sampled result point sequences have at most this many points

\* ------------------------------------------------------ program constants
QR_TIMEOUT       == 1000
ROTATION_SPEED   == 10    \* 0.01 rad per pixel, in 1/1000 rad
ROTATION_DAMPING == 10    \* 0.1 = 1 / ROTATION_DAMPING
NoModel          == 0     \* model = null

\* The instants at which callbacks run: the multiples of the timeout after the
\* start, and the millisecond before each.
MaxNow   == StartTime + MaxPeriods * QR_TIMEOUT
Instants == { t \in { StartTime + k * QR_TIMEOUT - e : k \in 0 .. MaxPeriods, e \in 0 .. 1 } :
              t >= StartTime }

GoodA == [scheme |-> "https", rest |-> "//a.example/a.glb"]
GoodB == [scheme |-> "https", rest |-> "//b.example/b.glb"]
BadP  == [scheme |-> "",      rest |-> "hello"]
Payloads == {GoodA, GoodB, BadP}

\* getResultPoints(): null is the empty sequence here (both fail length >= 3).
\* The coordinates are even, so the halves taken by processQRPoints are exact.
Pt(px, py) == [x |-> px, y |-> py]
PointSeqs == { << >>,
               << Pt(0, 0), Pt(10, 0) >>,
               << Pt(0, 0), Pt(10, 0), Pt(0, 10) >>,
               << Pt(20, 40), Pt(60, 40), Pt(20, 80), Pt(60, 80) >> }

PointerCoords == 0 .. MaxPointer
StillCoords   == {0}                 \* a pointer that is pressed and released in place

\* decoder inputs of the drag specification: one marker, always localized
DragPayloads  == {GoodA}
DragPointSeqs == { << Pt(0, 0), Pt(10, 0), Pt(0, 10) >> }

VARIABLES
  now,                   \* Date.now()
  scanner,               \* startQRScanner: "starting", "running", "failed"
  lastQRTimestamp,
  lastQRLocation,
  model,
  scene,
  requests,              \* urls passed to loader.load, in call order
  inflight,              \* ordinals of the loads not yet resolved
  isDragging,
  previousMousePosition,
  targetRotation,
  currentRotation,
  qrIsVisible,           \* animate's local of the last frame
  renderCalls,           \* renderer.render calls, modulo FrameWrap
  pendingFrames,         \* callbacks queued by requestAnimationFrame
  gesture,               \* history: "none", or what the last pointer-down found
  lostPending,           \* history: a frame discarded the asset, no detection since
  arrivedLost,           \* history: the held asset arrived while not visible, no frame since
  staleObservation,      \* history: lastQRLocation was written before the current sighting episode
  viewport,              \* video.videoWidth, video.videoHeight, window.innerWidth, window.innerHeight
  transform,             \* position and scale written to the held object by updateModelPosition
  sample                 \* the result points the decoder reports in ReduceSpec

vars == << now, scanner, lastQRTimestamp, lastQRLocation, model, scene,
           requests, inflight, isDragging, previousMousePosition,
           targetRotation, currentRotation, qrIsVisible, renderCalls,
           pendingFrames, gesture, lostPending, arrivedLost, staleObservation,
           viewport, transform, sample >>

\* ---------------------------------------------------------------- helpers
MinOf(S) == CHOOSE m \in S : \A n \in S : m <= n
MaxOf(S) == CHOOSE m \in S : \A n \in S : m >= n

\* variant: the instant lastQRTimestamp + QR_TIMEOUT still counts as visible
IsVisibleInclusive(t, seen) == t - seen <= QR_TIMEOUT

\* Date.now() - lastQRTimestamp < QR_TIMEOUT
IsVisible(t, seen) == t - seen < QR_TIMEOUT

\* variant: the url is not validated
ParsesAnything(url) == TRUE

\* new URL(url) does not throw
ParsesAsURL(url) == url.scheme # ""

\* variant: a detection without enough points clears the observation
processQRPointsOrClear(resultPoints, old) ==
  IF Len(resultPoints) >= 3
  THEN LET xs == { resultPoints[i].x : i \in 1 .. Len(resultPoints) }
           ys == { resultPoints[i].y : i \in 1 .. Len(resultPoints) }
       IN { [ x      |-> (MinOf(xs) + MaxOf(xs)) \div 2,
              y      |-> (MinOf(ys) + MaxOf(ys)) \div 2,
              width  |-> MaxOf(xs) - MinOf(xs),
              height |-> MaxOf(ys) - MinOf(ys) ] }
  ELSE {}

\* variant: three points are not enough
processQRPointsOverThree(resultPoints, old) ==
  IF Len(resultPoints) > 3
  THEN LET xs == { resultPoints[i].x : i \in 1 .. Len(resultPoints) }
           ys == { resultPoints[i].y : i \in 1 .. Len(resultPoints) }
       IN { [ x      |-> (MinOf(xs) + MaxOf(xs)) \div 2,
              y      |-> (MinOf(ys) + MaxOf(ys)) \div 2,
              width  |-> MaxOf(xs) - MinOf(xs),
              height |-> MaxOf(ys) - MinOf(ys) ] }
  ELSE old

\* processQRPoints: the value of lastQRLocation after the call
processQRPoints(resultPoints, old) ==
  IF Len(resultPoints) >= 3
  THEN LET xs == { resultPoints[i].x : i \in 1 .. Len(resultPoints) }
           ys == { resultPoints[i].y : i \in 1 .. Len(resultPoints) }
           minX == MinOf(xs)
           maxX == MaxOf(xs)
           minY == MinOf(ys)
           maxY == MaxOf(ys)
       IN { [ x      |-> (minX + maxX) \div 2,
              y      |-> (minY + maxY) \div 2,
              width  |-> maxX - minX,
              height |-> maxY - minY ] }
  ELSE old

\* x * 0.1, rounded toward zero to the rotation unit
Tenth(d) == IF d >= 0 THEN d \div ROTATION_DAMPING ELSE -((-d) \div ROTATION_DAMPING)

\* variant: the current rotation is not subtracted from the target
DampTowardsOrigin(cur, tgt) == [ x |-> cur.x + Tenth(tgt.x),
                                 y |-> cur.y + Tenth(tgt.y) ]

\* currentRotation += (targetRotation - currentRotation) * ROTATION_DAMPING
Damp(cur, tgt) == [ x |-> cur.x + Tenth(tgt.x - cur.x),
                    y |-> cur.y + Tenth(tgt.y - cur.y) ]

\* ------------------------------------------------------------------- Init
\* initApplication has run: init3DScene rendered the first frame and queued
\* the next one, startQRScanner is waiting for the camera.
Init ==
  /\ now = StartTime
  /\ scanner = "starting"
  /\ lastQRTimestamp = 0
  /\ lastQRLocation = {}
  /\ model = NoModel
  /\ scene = {}
  /\ requests = << >>
  /\ inflight = {}
  /\ isDragging = FALSE
  /\ previousMousePosition = [x |-> 0, y |-> 0]
  /\ targetRotation = [x |-> 0, y |-> 0]
  /\ currentRotation = [x |-> 0, y |-> 0]
  /\ qrIsVisible = FALSE
  /\ renderCalls = 1 % FrameWrap
  /\ pendingFrames = 1
  /\ gesture = "none"
  /\ lostPending = FALSE
  /\ arrivedLost = FALSE
  /\ staleObservation = FALSE
  /\ viewport = [ videoWidth |-> 640, videoHeight |-> 480,
                  innerWidth |-> 480, innerHeight |-> 480 ]
  /\ transform = {}
  /\ sample = << >>

\* ---------------------------------------------------------------- actions
Elapse ==
  /\ \E t \in Instants : t > now /\ now' = t
  /\ UNCHANGED << scanner, lastQRTimestamp, lastQRLocation, model, scene,
                  requests, inflight, isDragging, previousMousePosition,
                  targetRotation, currentRotation, qrIsVisible, renderCalls,
                  pendingFrames, gesture, lostPending, arrivedLost,
                  staleObservation, viewport, transform, sample >>

\* startQRScanner: decodeFromVideoDevice is subscribed
ScannerReady ==
  /\ scanner = "starting"
  /\ scanner' = "running"
  /\ UNCHANGED << now, lastQRTimestamp, lastQRLocation, model, scene,
                  requests, inflight, isDragging, previousMousePosition,
                  targetRotation, currentRotation, qrIsVisible, renderCalls,
                  pendingFrames, gesture, lostPending, arrivedLost,
                  staleObservation, viewport, transform, sample >>

\* startQRScanner: no camera, or the reader rejects; caught and logged
ScannerError ==
  /\ scanner = "starting"
  /\ scanner' = "failed"
  /\ UNCHANGED << now, lastQRTimestamp, lastQRLocation, model, scene,
                  requests, inflight, isDragging, previousMousePosition,
                  targetRotation, currentRotation, qrIsVisible, renderCalls,
                  pendingFrames, gesture, lostPending, arrivedLost,
                  staleObservation, viewport, transform, sample >>

\* loadModel(url), called with model = null: issues loader.load unless the
\* url does not parse
LoadIssued(url) == model = NoModel /\ ParsesAsURL(url)

\* the decode callback with a result
Decoded(qrData, resultPoints) ==
  /\ scanner = "running"
  /\ now + QR_TIMEOUT <= MaxNow
  /\ LoadIssued(qrData) => Len(requests) < MaxLoads
  /\ lastQRTimestamp' = now
  /\ lastQRLocation' = processQRPoints(resultPoints, lastQRLocation)
  /\ IF LoadIssued(qrData)
     THEN /\ requests' = Append(requests, qrData)
          /\ inflight' = inflight \cup { Len(requests) + 1 }
     ELSE UNCHANGED << requests, inflight >>
  /\ lostPending' = FALSE
  /\ staleObservation' = IF Len(resultPoints) >= 3 THEN FALSE
                         ELSE IF now - lastQRTimestamp >= QR_TIMEOUT
                              THEN lastQRLocation # {}
                              ELSE staleObservation
  /\ UNCHANGED << now, scanner, model, scene, isDragging,
                  previousMousePosition, targetRotation, currentRotation,
                  qrIsVisible, renderCalls, pendingFrames, gesture,
                  arrivedLost, viewport, transform, sample >>

\* loader.load onLoad: model = gltf.scene
LoadDone(id) ==
  /\ id \in inflight
  /\ inflight' = inflight \ {id}
  /\ model' = id
  /\ arrivedLost' = ~IsVisible(now, lastQRTimestamp)
  /\ transform' = {}
  /\ UNCHANGED << now, scanner, lastQRTimestamp, lastQRLocation, scene,
                  requests, isDragging, previousMousePosition,
                  targetRotation, currentRotation, qrIsVisible, renderCalls,
                  pendingFrames, gesture, lostPending,
                  staleObservation, viewport, sample >>

\* loader.load onError: logged
LoadFailed(id) ==
  /\ id \in inflight
  /\ inflight' = inflight \ {id}
  /\ UNCHANGED << now, scanner, lastQRTimestamp, lastQRLocation, model, scene,
                  requests, isDragging, previousMousePosition,
                  targetRotation, currentRotation, qrIsVisible, renderCalls,
                  pendingFrames, gesture, lostPending, arrivedLost,
                  staleObservation, viewport, transform, sample >>

\* What the pointer-down found, recorded for the history variable gesture.
DownFound == IF model # NoModel /\ now - lastQRTimestamp < QR_TIMEOUT
             THEN "eligible" ELSE "ineligible"

\* variant: a drag starts whenever an asset is held
onMouseDownAnyTime(clientX, clientY) ==
  /\ gesture = "none"
  /\ gesture' = DownFound
  /\ IF model # NoModel
     THEN /\ isDragging' = TRUE
          /\ previousMousePosition' = [x |-> clientX, y |-> clientY]
     ELSE UNCHANGED << isDragging, previousMousePosition >>
  /\ UNCHANGED << now, scanner, lastQRTimestamp, lastQRLocation, model, scene,
                  requests, inflight, targetRotation, currentRotation,
                  qrIsVisible, renderCalls, pendingFrames, lostPending,
                  arrivedLost,
                  staleObservation, viewport, transform, sample >>

\* onMouseDown / onTouchStart.  A pointer goes down only after the previous
\* gesture ended (one pointer: mouse and touch are handled alike).
onMouseDown(clientX, clientY) ==
  /\ gesture = "none"
  /\ gesture' = DownFound
  /\ IF model # NoModel /\ IsVisible(now, lastQRTimestamp)
     THEN /\ isDragging' = TRUE
          /\ previousMousePosition' = [x |-> clientX, y |-> clientY]
     ELSE UNCHANGED << isDragging, previousMousePosition >>
  /\ UNCHANGED << now, scanner, lastQRTimestamp, lastQRLocation, model, scene,
                  requests, inflight, targetRotation, currentRotation,
                  qrIsVisible, renderCalls, pendingFrames, lostPending,
                  arrivedLost,
                  staleObservation, viewport, transform, sample >>

\* targetRotation after a move to (clientX, clientY)
Dragged(tgt, prev, clientX, clientY) ==
  [ x |-> tgt.x + (clientY - prev.y) * ROTATION_SPEED,
    y |-> tgt.y + (clientX - prev.x) * ROTATION_SPEED ]

Abs(n) == IF n >= 0 THEN n ELSE -n

\* the rotations that are followed
InTargetRange(tgt) == Abs(tgt.x) + Abs(tgt.y) <= MaxTarget

\* variant: a move rotates whenever a drag is on, held asset or not
onMouseMoveUnheld(clientX, clientY) ==
  /\ IF isDragging
     THEN /\ InTargetRange(Dragged(targetRotation, previousMousePosition, clientX, clientY))
          /\ targetRotation' = Dragged(targetRotation, previousMousePosition, clientX, clientY)
          /\ previousMousePosition' = [x |-> clientX, y |-> clientY]
     ELSE UNCHANGED << targetRotation, previousMousePosition >>
  /\ UNCHANGED << now, scanner, lastQRTimestamp, lastQRLocation, model, scene,
                  requests, inflight, isDragging, currentRotation,
                  qrIsVisible, renderCalls, pendingFrames, gesture,
                  lostPending, arrivedLost,
                  staleObservation, viewport, transform, sample >>

\* onMouseMove / onTouchMove
onMouseMove(clientX, clientY) ==
  /\ IF isDragging /\ model # NoModel
     THEN /\ InTargetRange(Dragged(targetRotation, previousMousePosition, clientX, clientY))
          /\ targetRotation' = Dragged(targetRotation, previousMousePosition, clientX, clientY)
          /\ previousMousePosition' = [x |-> clientX, y |-> clientY]
     ELSE UNCHANGED << targetRotation, previousMousePosition >>
  /\ UNCHANGED << now, scanner, lastQRTimestamp, lastQRLocation, model, scene,
                  requests, inflight, isDragging, currentRotation,
                  qrIsVisible, renderCalls, pendingFrames, gesture,
                  lostPending, arrivedLost,
                  staleObservation, viewport, transform, sample >>

\* onMouseUp (mouseup, touchend, mouseleave)
onMouseUp ==
  /\ isDragging' = FALSE
  /\ gesture' = "none"
  /\ UNCHANGED << now, scanner, lastQRTimestamp, lastQRLocation, model, scene,
                  requests, inflight, previousMousePosition, targetRotation,
                  currentRotation, qrIsVisible, renderCalls, pendingFrames,
                  lostPending, arrivedLost,
                  staleObservation, viewport, transform, sample >>

\* Exact fractions <<numerator, denominator>> with denominator > 0 (not
\* reduced): the divisions of updateModelPosition are not rounded to integers.
\* Each operation binds its operands (p, q) before it combines them, so a
\* nested expression is evaluated once per operation.
Frac(n, d) == IF d < 0 THEN << -n, -d >> ELSE << n, d >>

FInt(n)    == << n, 1 >>
FMul(a, b) == CHOOSE r \in { Frac(p[1] * q[1], p[2] * q[2]) : p \in {a}, q \in {b} } : TRUE
FDiv(a, b) == CHOOSE r \in { Frac(p[1] * q[2], p[2] * q[1]) : p \in {a}, q \in {b} } : TRUE
FSub(a, b) == CHOOSE r \in { Frac(p[1] * q[2] - q[1] * p[2], p[2] * q[2]) : p \in {a}, q \in {b} } : TRUE
FNeg(a)    == CHOOSE r \in { << -p[1], p[2] >> : p \in {a} } : TRUE

\* variant: the scale is taken from the width alone
PlacementByWidth(loc, vp) ==
  LET normalizedX == FSub(FMul(FDiv(FInt(loc.x), FInt(vp.videoWidth)), FInt(2)), FInt(1))
      normalizedY == FNeg(FSub(FMul(FDiv(FInt(loc.y), FInt(vp.videoHeight)), FInt(2)), FInt(1)))
      aspectRatio == FDiv(FInt(vp.innerWidth), FInt(vp.innerHeight))
      qrSizeInViewport == FDiv(FInt(loc.width), FInt(vp.videoWidth))
  IN [ x     |-> FMul(FMul(normalizedX, FInt(3)), aspectRatio),
       y     |-> FMul(normalizedY, FInt(3)),
       z     |-> FInt(-3),
       scale |-> FMul(qrSizeInViewport, FInt(10)) ]

\* updateModelPosition: the position and the uniform scale given to the model
Placement(loc, vp) ==
  LET normalizedX == FSub(FMul(FDiv(FInt(loc.x), FInt(vp.videoWidth)), FInt(2)), FInt(1))
      normalizedY == FNeg(FSub(FMul(FDiv(FInt(loc.y), FInt(vp.videoHeight)), FInt(2)), FInt(1)))
      aspectRatio == FDiv(FInt(vp.innerWidth), FInt(vp.innerHeight))
      smaller     == IF loc.width <= loc.height THEN loc.width ELSE loc.height
      qrSizeInViewport == FDiv(FInt(smaller), FInt(vp.videoWidth))
  IN [ x     |-> FMul(FMul(normalizedX, FInt(3)), aspectRatio),
       y     |-> FMul(normalizedY, FInt(3)),
       z     |-> FInt(-3),
       scale |-> FMul(qrSizeInViewport, FInt(10)) ]

\* variant: the model is attached without an observation
updateModelPositionUnplaced(m, sc) ==
  IF m # NoModel THEN sc \cup {m} ELSE sc

\* updateModelPosition: the scene after the call (m is the held model)
updateModelPosition(m, sc) ==
  IF m # NoModel /\ lastQRLocation # {} THEN sc \cup {m} ELSE sc

\* variant: only an asset that is in the scene is discarded
DiscardsAttachedOnly(visible) == ~visible /\ model \in scene

\* variant: the discard test reads the clock with its own comparison
DiscardsLate(visible) == ~IsVisibleInclusive(now, lastQRTimestamp) /\ model # NoModel

\* animate: `!qrIsVisible && model`
Discards(visible) == ~visible /\ model # NoModel

\* variant: the frame is not rendered
NotRendered(calls) == calls

\* animate: renderer.render(scene, camera)
Rendered(calls) == (calls + 1) % FrameWrap

\* variant: the rotation is reset when no asset is shown
SmoothedOrReset(shown, cur, tgt) ==
  IF shown THEN Damp(cur, tgt) ELSE [x |-> 0, y |-> 0]

\* animate: the smoothing step inside `if (model && qrIsVisible)`
Smoothed(shown, cur, tgt) == IF shown THEN Damp(cur, tgt) ELSE cur

\* animate: one animation frame
animate ==
  /\ pendingFrames > 0
  /\ LET visible == IsVisible(now, lastQRTimestamp)
         discard == Discards(visible)
         held    == IF discard THEN NoModel ELSE model
         kept    == IF discard THEN scene \ {model} ELSE scene
         shown   == held # NoModel /\ visible
     IN /\ qrIsVisible' = visible
        /\ model' = held
        /\ scene' = IF shown THEN updateModelPosition(held, kept) ELSE kept
        /\ transform' = IF shown /\ lastQRLocation # {}
                         THEN { Placement(loc, viewport) : loc \in lastQRLocation }
                         ELSE IF held = NoModel THEN {} ELSE transform
        /\ currentRotation' = Smoothed(shown, currentRotation, targetRotation)
        /\ lostPending' = (discard \/ lostPending)
  /\ renderCalls' = Rendered(renderCalls)
  /\ pendingFrames' = (pendingFrames - 1) + 1
  /\ arrivedLost' = FALSE
  /\ UNCHANGED << now, scanner, lastQRTimestamp, lastQRLocation, requests,
                  inflight, isDragging, previousMousePosition, targetRotation,
                  gesture, staleObservation, viewport, sample >>

Next ==
  \/ Elapse
  \/ ScannerReady
  \/ ScannerError
  \/ \E p \in Payloads, pts \in PointSeqs : Decoded(p, pts)
  \/ \E id \in 1 .. MaxLoads : LoadDone(id)
  \/ \E id \in 1 .. MaxLoads : LoadFailed(id)
  \/ \E cx \in StillCoords, cy \in StillCoords : onMouseDown(cx, cy)
  \/ \E cx \in StillCoords, cy \in StillCoords : onMouseMove(cx, cy)
  \/ onMouseUp
  \/ animate

\* The same handlers, with a pointer that travels and one marker.
DragNext ==
  \/ Elapse
  \/ ScannerReady
  \/ ScannerError
  \/ \E p \in DragPayloads, pts \in DragPointSeqs : Decoded(p, pts)
  \/ \E id \in 1 .. MaxLoads : LoadDone(id)
  \/ \E id \in 1 .. MaxLoads : LoadFailed(id)
  \/ \E cx \in PointerCoords, cy \in PointerCoords : onMouseDown(cx, cy)
  \/ \E cx \in PointerCoords, cy \in PointerCoords : onMouseMove(cx, cy)
  \/ onMouseUp
  \/ animate

Spec == Init /\ [][Next]_vars

DragSpec == Init /\ [][DragNext]_vars
\* Frames keep being delivered by requestAnimationFrame.
FrameSpec == Spec /\ WF_vars(animate)

\* Frames keep coming, the clock moves on and every load resolves.
Resolve == \E id \in 1 .. MaxLoads : LoadDone(id) \/ LoadFailed(id)
SettleSpec == Spec /\ WF_vars(animate) /\ WF_vars(Elapse) /\ WF_vars(Resolve)


\* ------------------------------------------- specifications of the functions
\* A state of the page in which model 1, loaded from GoodA, is held and the
\* marker has just been seen; the fields left open are drawn by each Init.
HeldAndSeen ==
  /\ now = StartTime
  /\ scanner = "running"
  /\ lastQRTimestamp = StartTime
  /\ model = 1
  /\ requests = << GoodA >>
  /\ inflight = {}
  /\ isDragging = FALSE
  /\ previousMousePosition = [x |-> 0, y |-> 0]
  /\ qrIsVisible = FALSE
  /\ renderCalls = 1 % FrameWrap
  /\ pendingFrames = 1
  /\ gesture = "none"
  /\ lostPending = FALSE
  /\ arrivedLost = FALSE
  /\ staleObservation = FALSE
  /\ sample = << >>

\* Rotation smoothing: frames run on a held, visible asset from sampled
\* rotations.
OneRadian  == 100 * ROTATION_SPEED
RotSamples == { [x |-> ax, y |-> ay] : ax \in {-OneRadian, 0, OneRadian},
                                       ay \in {-OneRadian, 0, OneRadian} }

SmoothInit ==
  /\ HeldAndSeen
  /\ lastQRLocation = { [x |-> 5, y |-> 5, width |-> 10, height |-> 10] }
  /\ viewport = [ videoWidth |-> 640, videoHeight |-> 480,
                  innerWidth |-> 480, innerHeight |-> 480 ]
  /\ scene = {}
  /\ transform = {}
  /\ targetRotation \in RotSamples
  /\ currentRotation \in RotSamples

SmoothNext == animate

SmoothSpec == SmoothInit /\ [][SmoothNext]_vars /\ WF_vars(animate)

\* Geometry reduction: the decode callback runs on sampled result points.
GridCoords == { 10 * k : k \in 0 .. MaxGrid }
GridPoints == { Pt(px, py) : px \in GridCoords, py \in GridCoords }
GridSeqs   == UNION { [1 .. n -> GridPoints] : n \in 0 .. MaxPoints }

ReduceInit ==
  /\ now = StartTime
  /\ scanner = "running"
  /\ lastQRTimestamp = 0
  /\ lastQRLocation = {}
  /\ model = NoModel
  /\ scene = {}
  /\ requests = << >>
  /\ inflight = {}
  /\ isDragging = FALSE
  /\ previousMousePosition = [x |-> 0, y |-> 0]
  /\ targetRotation = [x |-> 0, y |-> 0]
  /\ currentRotation = [x |-> 0, y |-> 0]
  /\ qrIsVisible = FALSE
  /\ renderCalls = 1 % FrameWrap
  /\ pendingFrames = 1
  /\ gesture = "none"
  /\ lostPending = FALSE
  /\ arrivedLost = FALSE
  /\ staleObservation = FALSE
  /\ viewport = [ videoWidth |-> 640, videoHeight |-> 480,
                  innerWidth |-> 480, innerHeight |-> 480 ]
  /\ transform = {}
  /\ sample \in GridSeqs

ReduceNext == \E p \in DragPayloads : Decoded(p, sample)

ReduceSpec == ReduceInit /\ [][ReduceNext]_vars

\* Placement: a frame runs on a held, visible, not yet attached asset with a
\* sampled observation and sampled video and window sizes.
ObservationSamples ==
  { [x |-> cx, y |-> cy, width |-> sz[1], height |-> sz[2]] :
      cx \in {0, 160, 320, 640}, cy \in {0, 240, 480},
      sz \in { <<64, 64>>, <<64, 128>>, <<128, 64>> } }

ViewportSamples ==
  { [videoWidth |-> v[1], videoHeight |-> v[2], innerWidth |-> w[1], innerHeight |-> w[2]] :
      v \in { <<640, 480>>, <<1280, 720>> },
      w \in { <<480, 480>>, <<960, 480>>, <<480, 960>> } }

PlaceInit ==
  /\ HeldAndSeen
  /\ lastQRLocation \in { {loc} : loc \in ObservationSamples }
  /\ viewport \in ViewportSamples
  /\ scene = {}
  /\ transform = {}
  /\ targetRotation = [x |-> 0, y |-> 0]
  /\ currentRotation = [x |-> 0, y |-> 0]

PlaceNext == animate

PlaceSpec == PlaceInit /\ [][PlaceNext]_vars

\* ----------------------------------------------------------------- claims
GoodPayloads == { p \in Payloads : p.scheme # "" }
DecodedGood == \E p \in GoodPayloads, pts \in PointSeqs : Decoded(p, pts)
DecodedBad  == \E pts \in PointSeqs : Decoded(BadP, pts)
Expired     == now - lastQRTimestamp >= QR_TIMEOUT

\* C1: at most one load is in flight at any time; detections that arrive
\* while a load is unresolved issue no further load request.
C1_OneLoadInFlight == Cardinality(inflight) <= 1

\* C2: at most one loaded object is attached to the scene, and an attached
\* object is the one held in model.
C2_SceneHoldsOnlyModel ==
  /\ Cardinality(scene) <= 1
  /\ \A a \in scene : a = model

\* C3: a frame that finds the marker not visible while an asset is held
\* detaches it and clears model, and the next detection of a well-formed
\* payload after such a frame issues a new load request.
C3_FreshLoadAfterLoss ==
  [][ /\ (animate /\ Expired /\ model # NoModel)
         => (model' = NoModel /\ model \notin scene')
      /\ (lostPending /\ DecodedGood)
         => (Len(requests') = Len(requests) + 1 /\ inflight' # inflight)
    ]_vars

\* C4: the visibility computed by a frame at time now is true exactly when a
\* detection has happened and lastQRTimestamp <= now < lastQRTimestamp + 1000;
\* before any detection it is false.
C4_VisibilityWindow ==
  [][ animate =>
        (qrIsVisible' <=> ( /\ lastQRTimestamp # 0
                            /\ lastQRTimestamp <= now
                            /\ now < lastQRTimestamp + QR_TIMEOUT )) ]_vars

\* C4 witness: a frame ran exactly QR_TIMEOUT after the last detection, found
\* the marker not visible and discarded the asset.
C4_Witness ==
  /\ lostPending
  /\ ~qrIsVisible
  /\ now = lastQRTimestamp + QR_TIMEOUT

\* C5: isDragging becomes true only while an asset is held and the marker was
\* seen less than 1000 ms ago; after a pointer-down that found otherwise,
\* no step up to the pointer-up changes targetRotation.
C5_DragNeedsVisibleAsset ==
  [][ /\ (~isDragging /\ isDragging')
         => (model # NoModel /\ now - lastQRTimestamp < QR_TIMEOUT)
      /\ (gesture = "ineligible" /\ gesture' = "ineligible")
         => targetRotation' = targetRotation
    ]_vars

\* C5 witness: the pointer went down while the marker had expired, and an
\* asset is now held and visible, so a move would rotate it if it dragged.
C5_Witness ==
  /\ gesture = "ineligible"
  /\ ~isDragging
  /\ model # NoModel
  /\ ~Expired

\* C6: a detection whose payload does not parse leaves model, the scene and
\* the loads untouched, and a well-formed detection with no held asset
\* still issues a load.
C6_MalformedIgnored ==
  [][ /\ DecodedBad => UNCHANGED << model, scene, inflight, requests >>
      /\ (DecodedGood /\ model = NoModel)
         => (Len(requests') = Len(requests) + 1 /\ inflight' # inflight)
    ]_vars

\* C6 witness: a detection has been processed and, with model null all along,
\* no load was ever issued: the payload did not parse.
C6_Witness ==
  /\ lastQRTimestamp = now
  /\ requests = << >>
  /\ model = NoModel

\* C7: after a load fails no asset is held.
C7_FailureFreesSlot ==
  [][ (\E id \in 1 .. MaxLoads : LoadFailed(id)) => model' = NoModel ]_vars

\* C8 as claimed: an asset that arrived while the marker was not visible is
\* attached by the next frame.
C8_LateLoadAttached ==
  [][ (animate /\ arrivedLost /\ model # NoModel) => model \in scene' ]_vars

\* C8 amended: no frame cancels a load; an asset that arrived while the
\* marker was not visible is discarded, unattached, by the next frame if the
\* marker is still not visible, and attached by it only if the marker is
\* visible again and an observation is retained.
C8_LateLoadDiscarded ==
  [][ animate =>
        /\ inflight' = inflight
        /\ (arrivedLost /\ model # NoModel) =>
             IF Expired
             THEN model' = NoModel /\ model \notin scene'
             ELSE model' = model /\ (model \in scene' <=> lastQRLocation # {})
    ]_vars

\* C8 witness: a load has delivered its asset after the marker expired.
C8_Witness ==
  /\ arrivedLost
  /\ model # NoModel
  /\ model \notin scene
  /\ Expired

\* C9: every frame renders once and leaves exactly one frame queued, in
\* every state, and frames are rendered again and again.
C9_RenderEveryFrame ==
  /\ [](pendingFrames = 1)
  /\ [][ animate => renderCalls' = (renderCalls + 1) % FrameWrap ]_vars
  /\ []<><< animate >>_vars

\* C9 witness: the scanner failed to start and a frame has been rendered
\* since the page started.
C9_Witness ==
  /\ scanner = "failed"
  /\ renderCalls # 1 % FrameWrap

\* C10: once detections have stopped, eventually no asset is held and no
\* loaded object is attached to the scene, for good.
C10_AssetGoneAfterLoss == <>[](model = NoModel /\ scene = {})

\* Only the decode callback writes these; a detection that writes none of them
\* and does not reset lostPending changes nothing at all.
DetectionWrote ==
  \/ lastQRTimestamp' # lastQRTimestamp
  \/ lastQRLocation' # lastQRLocation
  \/ requests' # requests
  \/ staleObservation' # staleObservation
  \/ (lostPending /\ ~lostPending' /\ renderCalls' = renderCalls)

\* C11: every detection sets lastQRTimestamp to the current time whatever its
\* points, and issues a load when no asset is held and the payload parses;
\* with fewer than 3 points lastQRLocation is left as it was, with 3 or more
\* it becomes one observation that does not depend on the previous one.
C11_DetectionEffect ==
  [][ DetectionWrote =>
        \A p \in Payloads, pts \in PointSeqs :
          Decoded(p, pts) =>
            /\ lastQRTimestamp' = now
            /\ (model = NoModel /\ p.scheme # "") => Len(requests') = Len(requests) + 1
            /\ Len(pts) < 3 => lastQRLocation' = lastQRLocation
            /\ Len(pts) >= 3 =>
                 /\ Cardinality(lastQRLocation') = 1
                 /\ lastQRLocation' = processQRPoints(pts, {})
    ]_vars

\* C11 witness: a detection has just refreshed the timestamp and issued a
\* load while no observation is retained: its points were fewer than 3.
C11_Witness ==
  /\ lastQRTimestamp = now
  /\ requests # << >>
  /\ lastQRLocation = {}

\* C12: an asset is attached to the scene only with an observation written
\* by a detection of the current sighting episode, never with one retained
\* from before the marker was last lost.
C12_AnchoredInEpisode ==
  [][ (animate /\ model' # NoModel /\ model' \notin scene /\ model' \in scene')
        => ~staleObservation ]_vars

\* C13: a completed load stores its object in model and leaves the scene
\* alone; an object enters the scene only in a frame in which it is the held
\* model, the marker is visible and an observation is retained; a frame that
\* finds the held model attached leaves the scene as it is.
C13_AttachOnlyInFrame ==
  [][ /\ (\A id \in 1 .. MaxLoads :
            LoadDone(id) => (model' = id /\ scene' = scene /\ id \notin scene'))
      /\ (scene' \ scene # {})
           => /\ animate
              /\ model # NoModel
              /\ model' = model
              /\ ~Expired
              /\ lastQRLocation # {}
              /\ scene' = scene \cup {model}
      /\ (animate /\ model \in scene /\ ~Expired) => scene' = scene
    ]_vars

\* C13 witness: the held model is attached, visible and placed.
C13_Witness ==
  /\ model # NoModel
  /\ model \in scene
  /\ ~Expired
  /\ transform # {}

\* C14: the frame that discards the asset, detections and load completions
\* leave targetRotation and currentRotation as they are; currentRotation
\* changes only in a frame with a held, visible asset and targetRotation
\* only in a pointer move.
C14_RotationPersists ==
  [][ /\ (targetRotation' # targetRotation)
           => \E cx \in PointerCoords, cy \in PointerCoords : onMouseMove(cx, cy)
      /\ (currentRotation' # currentRotation)
           => (animate /\ model # NoModel /\ ~Expired)
      /\ (animate /\ model # NoModel /\ Expired)
           => (targetRotation' = targetRotation /\ currentRotation' = currentRotation)
    ]_vars

\* C14 witness: the asset was discarded after it had been rotated, and both
\* rotations are still away from zero.
C14_Witness ==
  /\ lostPending
  /\ model = NoModel
  /\ targetRotation # [x |-> 0, y |-> 0]
  /\ currentRotation # [x |-> 0, y |-> 0]

\* C15 as claimed: targetRotation changes only while the marker was seen
\* less than 1000 ms ago.
C15_RotatesOnlyWhileVisible ==
  [][ (targetRotation' # targetRotation) => now - lastQRTimestamp < QR_TIMEOUT ]_vars

\* C15 amended: targetRotation changes only in a move of a gesture whose
\* pointer-down found a held asset seen less than 1000 ms before, and only
\* while an asset is held at the move; the marker need not be visible then.
C15_RotatesOnlyInEligibleDrag ==
  [][ (targetRotation' # targetRotation)
        => (gesture = "eligible" /\ isDragging /\ model # NoModel) ]_vars

\* C15 witness: a drag that began while visible goes on with the asset still
\* held after the visibility window has expired.
C15_Witness ==
  /\ gesture = "eligible"
  /\ isDragging
  /\ model # NoModel
  /\ Expired
  /\ targetRotation # [x |-> 0, y |-> 0]

\* C19: a frame never both discards and places; an asset that is still held
\* after a frame was visible at that frame's time, and the frame's recorded
\* visibility is the one both decisions used.
C19_OneVisibilityPerFrame ==
  [][ animate =>
        /\ (model' # NoModel) => (~Expired /\ qrIsVisible')
        /\ (model # NoModel /\ model' = NoModel)
             => (~qrIsVisible' /\ scene' = scene \ {model} /\ transform' = {})
        /\ (model # NoModel /\ Expired) => model' = NoModel
    ]_vars

\* C19 witness: a frame at the instant of expiry discarded the asset.
C19_Witness ==
  /\ lostPending
  /\ model = NoModel
  /\ transform = {}
  /\ now - lastQRTimestamp = QR_TIMEOUT

\* C16: with the target fixed, a frame never increases |target - current| on
\* an axis and never flips its sign, it shrinks it while it is at least the
\* rounding step, one frame from (0,0) with target (1,0) gives (0.1,0), and
\* current ends up within the rounding step of target.
AxisGap(tgt, cur) == << tgt.x - cur.x, tgt.y - cur.y >>
Settled == \A i \in 1 .. 2 :
             Abs(AxisGap(targetRotation, currentRotation)[i]) < ROTATION_DAMPING

C16_SmoothApproach ==
  /\ [][ animate =>
           /\ \A i \in 1 .. 2 :
                LET before == AxisGap(targetRotation, currentRotation)[i]
                    after  == AxisGap(targetRotation', currentRotation')[i]
                IN /\ Abs(after) <= Abs(before)
                   /\ before * after >= 0
                   /\ Abs(before) >= ROTATION_DAMPING => Abs(after) < Abs(before)
           /\ ( /\ currentRotation = [x |-> 0, y |-> 0]
                /\ targetRotation = [x |-> OneRadian, y |-> 0] )
                => currentRotation' = [x |-> OneRadian \div 10, y |-> 0]
       ]_vars
  /\ <>[]Settled

\* C16 witness: one frame after current (0,0), target (1,0).
C16_Witness ==
  /\ targetRotation = [x |-> OneRadian, y |-> 0]
  /\ currentRotation = [x |-> OneRadian \div 10, y |-> 0]
  /\ model \in scene

\* C17: after a detection with at least 3 points the observation is the
\* bounding box of all the points: center at the mean of the extreme
\* coordinates, extents their differences; with fewer points there is none.
IsBoundingBox(pts, r) ==
  \E i, j, k, l \in 1 .. Len(pts) :
    /\ \A n \in 1 .. Len(pts) :
         /\ pts[i].x <= pts[n].x /\ pts[n].x <= pts[j].x
         /\ pts[k].y <= pts[n].y /\ pts[n].y <= pts[l].y
    /\ 2 * r.x = pts[i].x + pts[j].x
    /\ 2 * r.y = pts[k].y + pts[l].y
    /\ r.width = pts[j].x - pts[i].x
    /\ r.height = pts[l].y - pts[k].y

C17_BoundingBox ==
  lastQRTimestamp # 0 =>
    /\ IF Len(sample) >= 3
       THEN \E r \in lastQRLocation : lastQRLocation = {r} /\ IsBoundingBox(sample, r)
       ELSE lastQRLocation = {}
    /\ sample = << Pt(0, 0), Pt(10, 0), Pt(0, 10) >>
         => lastQRLocation = { [x |-> 5, y |-> 5, width |-> 10, height |-> 10] }

\* C17 witness: the detection of [(0,0),(10,0),(0,10)] has been processed.
C17_Witness ==
  /\ lastQRTimestamp # 0
  /\ sample = << Pt(0, 0), Pt(10, 0), Pt(0, 10) >>
  /\ lastQRLocation = { [x |-> 5, y |-> 5, width |-> 10, height |-> 10] }

\* C18: once a frame has placed the asset, its position is
\* x = ((centerX/frameWidth)*2-1)*3*aspect, y = -((centerY/frameHeight)*2-1)*3,
\* z = -3 and its scale (min(width,height)/frameWidth)*10: a function of the
\* observation and the video and window sizes alone; 640x480, aspect 1,
\* center (320,240), size 64x64 gives (0,0,-3) and scale 1.
RECURSIVE Gcd(_, _)
Gcd(a, b) == IF b = 0 THEN a ELSE Gcd(b, a % b)

\* the fraction n / d (d > 0) in lowest terms
Lowest(n, d) == LET g == Gcd(Abs(n), d) IN << n \div g, d \div g >>

C18_Placement ==
  model \in scene =>
    \E t \in transform, loc \in lastQRLocation :
      LET vw == viewport.videoWidth
          vh == viewport.videoHeight
          iw == viewport.innerWidth
          ih == viewport.innerHeight
          m  == IF loc.width <= loc.height THEN loc.width ELSE loc.height
      IN /\ transform = {t}
         /\ t.x[2] > 0 /\ t.y[2] > 0 /\ t.scale[2] > 0
         /\ Lowest(t.x[1], t.x[2]) = Lowest((2 * loc.x - vw) * 3 * iw, vw * ih)
         /\ Lowest(t.y[1], t.y[2]) = Lowest((vh - 2 * loc.y) * 3, vh)
         /\ t.z = << -3, 1 >>
         /\ Lowest(t.scale[1], t.scale[2]) = Lowest(m * 10, vw)
         /\ ( /\ vw = 640 /\ vh = 480 /\ iw = ih
              /\ loc = [x |-> 320, y |-> 240, width |-> 64, height |-> 64] )
              => (t.x[1] = 0 /\ t.y[1] = 0 /\ t.scale[1] = t.scale[2])

\* C18 witness: the frame has placed the asset for 640x480, aspect 1,
\* center (320,240), size 64x64.
C18_Witness ==
  /\ model \in scene
  /\ viewport = [ videoWidth |-> 640, videoHeight |-> 480,
                  innerWidth |-> 480, innerHeight |-> 480 ]
  /\ lastQRLocation = { [x |-> 320, y |-> 240, width |-> 64, height |-> 64] }
  /\ \E t \in transform :
       /\ t.x[1] = 0 /\ t.y[1] = 0
       /\ t.z = << -3, 1 >>
       /\ t.scale[1] = t.scale[2]
====
